---- MODULE Spec2Model ----
(***************************************************************************)
(* Model of the Azure deployment preflight script                          *)
(* (.github/skills/azure-deployment-preflight/preflight.py).               *)
(*                                                                         *)
(* Text is modelled as a sequence of fragments.  A Python string is cut    *)
(* into fragments so that every occurrence of the text "Provider" is a     *)
(* fragment of its own; str.replace("Provider", ...) then acts fragment by *)
(* fragment exactly as it acts on the characters.                          *)
(***************************************************************************)
EXTENDS Integers, Sequences, FiniteSets, TLC

\* Bound: the scanner returns at most MaxFiles descriptors.
MaxFiles == 2

\* ---------------------------------------------------------------- text

\* The resolved --root, with its trailing separator.
Root == <<"/repo/">>

\* The *.bicep paths that may exist below the root, absolute as the glob
\* yields them, in the order in which the file system lists them (glob does
\* not sort: the order is the directory order, here not the sorted one).
DirectoryOrder ==
  << Root \o <<"net.bicep">>,
     Root \o <<"infra/", "Provider", ".bicep">>,
     Root \o <<"main.bicep">> >>

\* Path.relative_to(root)
relative_to(p, root) == SubSeq(p, Len(root) + 1, Len(p))

\* Python's None, as printed by an f-string.
None == "None"

RecognizedScopes == {"resourceGroup", "subscription", "managementGroup", "tenant"}

\* What a descriptor path holds: something read_text() fails on (a missing
\* file, a directory named x.bicep, undecodable bytes), or text with or
\* without a targetScope declaration of a recognized keyword.
Unreadable == [readable |-> FALSE, targetScope |-> "-"]
NoDeclaration == "absent"
NotYetRead == [readable |-> FALSE, targetScope |-> "?"]
FileStates ==
  {Unreadable} \cup
  { [readable |-> TRUE, targetScope |-> d] : d \in RecognizedScopes \cup {NoDeclaration} }

Range(s) == { s[k] : k \in 1..Len(s) }

\* The paths of pool at the positions in S, in pool order.
RECURSIVE Pick(_, _, _)
Pick(pool, S, k) ==
  IF k > Len(pool) THEN <<>>
  ELSE (IF k \in S THEN <<pool[k]>> ELSE <<>>) \o Pick(pool, S, k + 1)

\* find_bicep_files(root): the paths that exist, in directory order.
Scans ==
  { Pick(DirectoryOrder, S, 1) :
      S \in { T \in SUBSET DOMAIN DirectoryOrder : Cardinality(T) <= MaxFiles } }

Has(s, x) == \E k \in 1..Len(s) : s[k] = x

\* str.replace(old, new) on fragments: every occurrence is replaced.
replace(s, old, new) == [k \in 1..Len(s) |-> IF s[k] = old THEN new ELSE s[k]]

\* out[:200]
ExcerptLen == 200
Excerpt(out) == SubSeq(out, 1, IF Len(out) < ExcerptLen THEN Len(out) ELSE ExcerptLen)

\* str(rc)
str(rc) == IF rc = 0 THEN "0" ELSE IF rc = 1 THEN "1" ELSE "2"

\* ------------------------------------------------------ get_target_scope

\* read_text() failing gives None; otherwise the first recognized
\* targetScope declaration, or "resourceGroup" when there is none.
get_target_scope(file) ==
  IF ~file.readable THEN None
  ELSE IF file.targetScope \in RecognizedScopes THEN file.targetScope
  ELSE "resourceGroup"

\* --------------------------------------------------------------- run_cmd

\* What subprocess.run can do with a command: return a completed process
\* (exit status, captured stdout and stderr) or raise while launching.
SubprocessResults ==
  { [raises |-> FALSE, returncode |-> 0, stdout |-> <<"o">>, stderr |-> <<>>,      error |-> <<>>],
    [raises |-> FALSE, returncode |-> 1, stdout |-> <<>>,    stderr |-> <<"e">>,   error |-> <<>>],
    [raises |-> TRUE,  returncode |-> 0, stdout |-> <<>>,    stderr |-> <<>>,      error |-> <<"x">>] }

\* run_cmd without its "except Exception": the launch exception leaves it.
run_cmd_Propagates(res) ==
  IF res.raises
  THEN [raised |-> TRUE, rc |-> 1, out |-> res.error]
  ELSE [raised |-> FALSE, rc |-> res.returncode, out |-> res.stdout \o res.stderr]

\* run_cmd with capture=True: (returncode, stdout + stderr), and any
\* exception becomes (1, str(e)).  `raised` says whether an exception leaves
\* run_cmd: it never does.
run_cmd(res) ==
  IF res.raises
  THEN [raised |-> FALSE, rc |-> 1, out |-> res.error]
  ELSE [raised |-> FALSE, rc |-> res.returncode, out |-> res.stdout \o res.stderr]

\* ------------------------------------------------------- command strings

ValidationLevel == "Provider"
FallbackLevel == "ProviderNoRbac"

GroupWhatIf == "az deployment group what-if"
SubWhatIf == "az deployment sub what-if"
MgWhatIf == "az deployment mg what-if"
TenantWhatIf == "az deployment tenant what-if"
RgArg == " --resource-group <rg-name>"
LocationArg == " --location <location>"
MgIdArg == " --management-group-id <mg-id>"
TemplateArg == " --template-file "
LevelArg == " --validation-level "

\* f"bicep build {b} --stdout"
BuildCommand(b) == <<"bicep build ">> \o b \o <<" --stdout">>

\* The chain with the subscription branch given the resource-group line.
WhatIfCommand_SubAsGroup(scope, b) ==
  IF scope = "resourceGroup" \/ scope = "subscription"
  THEN <<GroupWhatIf, RgArg, TemplateArg>> \o b \o <<LevelArg, ValidationLevel>>
  ELSE IF scope = "managementGroup"
  THEN <<MgWhatIf, LocationArg, MgIdArg, TemplateArg>> \o b \o <<LevelArg, ValidationLevel>>
  ELSE <<TenantWhatIf, LocationArg, TemplateArg>> \o b \o <<LevelArg, ValidationLevel>>

\* The what-if command template of the if/elif/else chain on scope.
WhatIfCommand(scope, b) ==
  IF scope = "resourceGroup"
  THEN <<GroupWhatIf, RgArg, TemplateArg>> \o b \o <<LevelArg, ValidationLevel>>
  ELSE IF scope = "subscription"
  THEN <<SubWhatIf, LocationArg, TemplateArg>> \o b \o <<LevelArg, ValidationLevel>>
  ELSE IF scope = "managementGroup"
  THEN <<MgWhatIf, LocationArg, MgIdArg, TemplateArg>> \o b \o <<LevelArg, ValidationLevel>>
  ELSE <<TenantWhatIf, LocationArg, TemplateArg>> \o b \o <<LevelArg, ValidationLevel>>

\* fallback = cmd.replace("Provider", "ProviderNoRbac")
FallbackCommand(cmd) == replace(cmd, "Provider", FallbackLevel)

\* ----------------------------------------------------------------- notes

NoBicepNote == <<"No .bicep files found.">>
NoAzNote == <<"Cannot execute az commands: 'az' not found in PATH">>
BuildFailedNote(b, out) == <<"bicep build failed for ">> \o b \o <<": ">> \o Excerpt(out)
WhatIfFailedNote(b, rc) ==
  <<"what-if failed for ">> \o b \o <<" (rc=", str(rc), "), trying fallback: ProviderNoRbac">>
FallbackFailedNote(b, rc2) == <<"Fallback also failed for ">> \o b \o <<": rc=", str(rc2)>>

\* ------------------------------------------------------- generate_report

\* The Markdown code-quote character.
Backtick == "<backtick>"
NoCommandsLine == <<"- None (dry-run)">>
NoNotesLine == <<"No notes">>

\* One line per descriptor: "- {p.relative_to(root)} (scope: {scope})",
\* the scope read again from the file as it is when the report is made.
FilesSection(files, fs) ==
  [k \in 1..Len(files) |->
     [path |-> relative_to(files[k], Root), scope |-> get_target_scope(fs[files[k]])]]

\* The commands, each as a backtick-quoted list item, joined by newlines;
\* or the line "- None (dry-run)" when the joined text is empty.
CommandsMd(cmds) ==
  IF cmds = <<>> THEN <<NoCommandsLine>>
  ELSE [k \in 1..Len(cmds) |-> <<"- ", Backtick>> \o cmds[k] \o <<Backtick>>]

\* The notes joined by newlines, or "No notes" when the joined text is empty.
NotesText(ns) == IF ns = <<>> THEN <<NoNotesLine>> ELSE ns

generate_report(files, fs, tl, cmds, ns) ==
  [written |-> TRUE,
   bicep_count |-> Len(files),
   tools |-> tl,
   files_section |-> FilesSection(files, fs),
   commands |-> CommandsMd(cmds),
   notes |-> NotesText(ns)]

NoReport ==
  [written |-> FALSE, bicep_count |-> 0, tools |-> <<>>, files_section |-> <<>>,
   commands |-> <<>>, notes |-> <<>>]

\* ---------------------------------------------------- the web service
\* src/src/server.py: the state of the Flask application, declared here
\* because every specification of the module fixes every variable.

\* Bound: the requests the server is sent.
MaxRequests == 2
Reqs == 1..MaxRequests

Methods == {"GET", "HEAD"}
UrlPaths == {"/", "/health", "/metrics", "/missing"}
Statuses == {"200", "404"}

\* The url map built by the @app.route decorators: request.endpoint is the
\* view function's name, or None when no rule matches.
endpoint(path) ==
  IF path = "/" THEN "hello"
  ELSE IF path = "/health" THEN "health"
  ELSE IF path = "/metrics" THEN "metrics"
  ELSE None

\* request.endpoint or 'unknown'
endpoint_label(path) == IF endpoint(path) = None THEN "unknown" ELSE endpoint(path)

\* str(response.status_code): the views answer 200, not_found answers 404.
status_code(path) == IF endpoint(path) = None THEN "404" ELSE "200"

EndpointLabels == {"hello", "health", "metrics", "unknown"}

\* The label sets of app_requests_total: ['method', 'endpoint', 'status'].
LabelSets == [method : Methods, endpoint : EndpointLabels, status : Statuses]

\* request_count.labels(method=..., endpoint=..., status=...)
labels(method, path, status) ==
  [method |-> method, endpoint |-> endpoint_label(path), status |-> status]

\* A counter child set to one instead of incremented.
inc_SetToOne(counter, l) == [counter EXCEPT ![l] = 1]

\* Counter.inc(): one atomic increment of the labelled child.
inc(counter, l) == [counter EXCEPT ![l] = @ + 1]

\* Histogram.observe(duration) on the child of an endpoint.
observe(histogram, e, duration) ==
  [histogram EXCEPT ![e] = [count |-> @.count + 1, sum |-> @.sum + duration]]

VARIABLES
  requests,            \* per request: where its handling is, and its locals
  request_start_time,  \* the attribute app.request_start_time
  clock,               \* what time.time() returns next
  request_count,       \* app_requests_total: label set -> value
  request_duration     \* app_request_duration_seconds: endpoint -> count, sum

serverVars == <<requests, request_start_time, clock, request_count, request_duration>>

\* A request not yet received.
NoRequest ==
  [pc |-> "idle", method |-> "-", path |-> "-", status |-> "-",
   started |-> 0, read |-> 0, duration |-> 0,
   body |-> [l \in LabelSets |-> 0], completed |-> {}]

\* The module has been imported: no request yet, the metrics at zero.
ServerIdle ==
  /\ requests = [r \in Reqs |-> NoRequest]
  /\ request_start_time = 0
  /\ clock = 1
  /\ request_count = [l \in LabelSets |-> 0]
  /\ request_duration = [e \in EndpointLabels |-> [count |-> 0, sum |-> 0]]

\* ------------------------------------------------------------------ main

\* The tools main consults in the map check_tools() returns (azd is probed
\* too, and only serialized into the report).
ToolNames == {"az", "bicep"}

VARIABLES
  execute,      \* args.execute
  tools,        \* check_tools(): tool name -> whether a path was resolved
  bicep_files,  \* find_bicep_files(root), in the scanner's order
  fileText,     \* the file system: what each descriptor path holds, settled
                \* by the environment when main first reads the path
  notes,        \* main's notes list
  commands,     \* main's commands list
  pc,           \* where main is
  i,            \* 1-based position of the loop variable b in bicep_files
  scope,        \* main's local scope
  cmd,          \* main's local cmd
  fallback,     \* main's local fallback
  rc,           \* the exit status run_cmd returned last (rc, rc2)
  ran,          \* the environment: every command handed to run_cmd, in order
  scopes,       \* history of the value main read into scope, per descriptor
  report,       \* the file at args.output
  stdout        \* what main printed

vars == <<execute, tools, bicep_files, fileText, notes, commands, pc, i, scope,
          cmd, fallback, rc, ran, scopes, report, stdout>>

Init ==
  /\ execute \in BOOLEAN
  /\ tools \in [ToolNames -> BOOLEAN]
  /\ bicep_files \in Scans
  /\ fileText = [p \in Range(bicep_files) |-> NotYetRead]
  /\ notes = <<>>
  /\ commands = <<>>
  /\ pc = "start"
  /\ i = 0
  /\ scope = None
  /\ cmd = <<>>
  /\ fallback = <<>>
  /\ rc = 0
  /\ ran = <<>>
  /\ scopes = <<>>
  /\ report = NoReport
  /\ stdout = NoReport
  /\ ServerIdle

\* The absence note appended without its condition.
InitialNotes_Always(ns, files) == Append(ns, NoBicepNote)

\* if not bicep_files: notes.append("No .bicep files found.")
InitialNotes(ns, files) == IF files = <<>> THEN Append(ns, NoBicepNote) ELSE ns

\* After the build command is synthesized: "if args.execute:" runs it.
AfterBuildSynth(ex) == IF ex THEN "run_build" ELSE "synth"

\* The what-if step without its "if args.execute:".
AfterWhatIfSynth_IgnoreExecute(ex, tl) == IF ~tl["az"] THEN "noaz" ELSE "run"

\* The what-if step without its "if not tools.get('az'):".
AfterWhatIfSynth_IgnoreAz(ex, tl) == IF ~ex THEN "skip" ELSE "run"

\* After the what-if command is synthesized: nothing unless args.execute;
\* then a note when tools.get("az") is falsy, else the command is run.
AfterWhatIfSynth(ex, tl) ==
  IF ~ex THEN "skip" ELSE IF ~tl["az"] THEN "noaz" ELSE "run"

\* The fallback attempted whatever the what-if command returned.
NeedsFallback_Always(r) == TRUE

\* "if rc != 0:" after the what-if command: attempt the fallback.
NeedsFallback(r) == r # 0

\* "if rc != 0:" after the build command.
NotesAfterBuild(ns, b, r, out) ==
  IF r # 0 THEN Append(ns, BuildFailedNote(b, out)) ELSE ns

\* A note appended whatever the fallback returned.
NotesAfterFallback_Always(ns, b, r2) == Append(ns, FallbackFailedNote(b, r2))

\* "if rc2 != 0:" after the fallback command.
NotesAfterFallback(ns, b, r2) ==
  IF r2 # 0 THEN Append(ns, FallbackFailedNote(b, r2)) ELSE ns

\* A command put at the front of the list.
append_Front(list, x) == <<x>> \o list

\* commands.append(cmd)
append(list, x) == Append(list, x)

\* One call of run_cmd as the environment sees it.
Call(c, step, r) == [cmd |-> c, file |-> i, step |-> step, rc |-> r]

\* Lines 134-142: the scans are done; the absence note.
Start ==
  /\ pc = "start"
  /\ notes' = InitialNotes(notes, bicep_files)
  /\ i' = 1
  /\ pc' = "loop"
  /\ UNCHANGED <<execute, tools, bicep_files, fileText, commands, scope, cmd,
                 fallback, rc, ran, scopes, report, stdout>>
  /\ UNCHANGED serverVars

\* Lines 144-149: the next descriptor; its scope; its build command.
BeginDescriptor ==
  /\ pc = "loop"
  /\ i <= Len(bicep_files)
  /\ \E file \in FileStates :
     LET b == bicep_files[i]
         sc == get_target_scope(file)
     IN /\ fileText' = [fileText EXCEPT ![b] = file]
        /\ scope' = sc
        /\ scopes' = Append(scopes, sc)
        /\ IF tools["bicep"]
           THEN /\ cmd' = BuildCommand(b)
                /\ commands' = append(commands, BuildCommand(b))
                /\ pc' = AfterBuildSynth(execute)
           ELSE /\ pc' = "synth"
                /\ UNCHANGED <<cmd, commands>>
  /\ UNCHANGED <<execute, tools, bicep_files, notes, i, fallback, rc, ran,
                 report, stdout>>
  /\ UNCHANGED serverVars

\* Lines 150-152: the build command is run.
RunBuild ==
  /\ pc = "run_build"
  /\ \E res \in SubprocessResults :
       LET r == run_cmd(res)
       IN /\ ran' = Append(ran, Call(cmd, "build", r.rc))
          /\ IF r.raised
             THEN /\ pc' = "crashed"
                  /\ UNCHANGED <<notes, rc>>
             ELSE /\ rc' = r.rc
                  /\ notes' = NotesAfterBuild(notes, bicep_files[i], r.rc, r.out)
                  /\ pc' = "synth"
  /\ UNCHANGED <<execute, tools, bicep_files, fileText, commands, i, scope, cmd,
                 fallback, scopes, report, stdout>>
  /\ UNCHANGED serverVars

\* Lines 153-166: the what-if command; without --execute, or without az,
\* the loop goes on to the next descriptor.
SynthWhatIf ==
  /\ pc = "synth"
  /\ LET c == WhatIfCommand(scope, bicep_files[i])
         next == AfterWhatIfSynth(execute, tools)
     IN /\ cmd' = c
        /\ commands' = append(commands, c)
        /\ notes' = IF next = "noaz" THEN Append(notes, NoAzNote) ELSE notes
        /\ IF next = "run"
           THEN pc' = "run_whatif" /\ i' = i
           ELSE pc' = "loop" /\ i' = i + 1
  /\ UNCHANGED <<execute, tools, bicep_files, fileText, scope, fallback, rc, ran,
                 scopes, report, stdout>>
  /\ UNCHANGED serverVars

\* Lines 168-172: the what-if command is run; on failure the fallback is
\* synthesized and the failure noted.
RunWhatIf ==
  /\ pc = "run_whatif"
  /\ \E res \in SubprocessResults :
       LET r == run_cmd(res)
       IN /\ ran' = Append(ran, Call(cmd, "whatif", r.rc))
          /\ IF r.raised
             THEN /\ pc' = "crashed"
                  /\ UNCHANGED <<notes, rc, fallback, i>>
             ELSE /\ rc' = r.rc
                  /\ IF NeedsFallback(r.rc)
                     THEN /\ fallback' = FallbackCommand(cmd)
                          /\ notes' = Append(notes, WhatIfFailedNote(bicep_files[i], r.rc))
                          /\ pc' = "run_fallback"
                          /\ i' = i
                     ELSE /\ pc' = "loop"
                          /\ i' = i + 1
                          /\ UNCHANGED <<fallback, notes>>
  /\ UNCHANGED <<execute, tools, bicep_files, fileText, commands, scope, cmd,
                 scopes, report, stdout>>
  /\ UNCHANGED serverVars

\* Lines 173-175: the fallback is run, once.
RunFallback ==
  /\ pc = "run_fallback"
  /\ \E res \in SubprocessResults :
       LET r == run_cmd(res)
       IN /\ ran' = Append(ran, Call(fallback, "fallback", r.rc))
          /\ IF r.raised
             THEN /\ pc' = "crashed"
                  /\ UNCHANGED <<notes, rc, i>>
             ELSE /\ rc' = r.rc
                  /\ notes' = NotesAfterFallback(notes, bicep_files[i], r.rc)
                  /\ pc' = "loop"
                  /\ i' = i + 1
  /\ UNCHANGED <<execute, tools, bicep_files, fileText, commands, scope, cmd,
                 fallback, scopes, report, stdout>>
  /\ UNCHANGED serverVars

\* Lines 177-178: the loop is over; the report is written and printed.
GenerateReport ==
  /\ pc = "loop"
  /\ i > Len(bicep_files)
  /\ LET content == generate_report(bicep_files, fileText, tools, commands, notes)
     IN /\ report' = content
        /\ stdout' = content
  /\ pc' = "done"
  /\ UNCHANGED <<execute, tools, bicep_files, fileText, notes, commands, i, scope,
                 cmd, fallback, rc, ran, scopes>>
  /\ UNCHANGED serverVars

Next ==
  \/ Start
  \/ BeginDescriptor
  \/ RunBuild
  \/ SynthWhatIf
  \/ RunWhatIf
  \/ RunFallback
  \/ GenerateReport

Spec == Init /\ [][Next]_vars

\* main is one thread that is never preempted for good: a step that can be
\* taken is taken.
FairSpec == Spec /\ WF_vars(Next)

\* ------------------------------------------------------------ properties

NFiles == Len(bicep_files)

\* Commands synthesized per descriptor: the build command only with bicep.
PerFile == IF tools["bicep"] THEN 2 ELSE 1

\* Descriptor k's what-if command has been synthesized.
Synthesized(k) == k < i \/ (k = i /\ pc \in {"run_whatif", "run_fallback"})

\* The loop body is over for descriptor k.
Completed(k) == k < i

\* Descriptor k's what-if command, where the loop put it in commands.
DryRunOf(k) == commands[k * PerFile]

\* The calls of run_cmd made for descriptor k at one call site.
Calls(k, step) == { j \in DOMAIN ran : ran[j].file = k /\ ran[j].step = step }
CallsFor(k) == { j \in DOMAIN ran : ran[j].file = k }

\* A note of the form prefix + path + ..., about the descriptor at path b.
Mentions(note, b) == Len(note) > Len(b) /\ SubSeq(note, 2, 1 + Len(b)) = b

\* The notes the what-if step and its fallback left about descriptor k.
DryRunNotes(k) ==
  { j \in DOMAIN notes :
      /\ Mentions(notes[j], bicep_files[k])
      /\ notes[j][1] \in {"what-if failed for ", "Fallback also failed for "} }

\* The notes that are about no descriptor in particular and are not the
\* absence note: the notes about a missing tool.
ToolNotes ==
  { j \in DOMAIN notes :
      /\ notes[j] # NoBicepNote
      /\ \A k \in 1..NFiles : ~Mentions(notes[j], bicep_files[k]) }

\* C1: without --execute run_cmd is never called, and the commands list
\* holds every synthesized command: one what-if command per descriptor, and
\* one build command per descriptor when bicep is available.
C1_NoExecuteRunsNothing ==
  ~execute =>
    /\ ran = <<>>
    /\ \A k \in 1..NFiles :
         Synthesized(k) =>
           /\ Has(commands, WhatIfCommand(scopes[k], bicep_files[k]))
           /\ tools["bicep"] => Has(commands, BuildCommand(bicep_files[k]))
    /\ pc = "done" => Len(commands) = NFiles * PerFile

C1_Witness ==
  /\ ~execute /\ tools["az"] /\ tools["bicep"]
  /\ pc = "done" /\ NFiles = 2 /\ Len(commands) = 4 /\ ran = <<>>

\* C2: with --execute and az, the what-if command of a descriptor is run
\* once; its fallback is run exactly once when it exited non-zero and not at
\* all when it exited zero or was not run; nothing is run again.
C2_OneFallback ==
  /\ \A k \in 1..NFiles :
       /\ Cardinality(Calls(k, "whatif")) <= 1
       /\ Cardinality(Calls(k, "fallback")) <= 1
       /\ Calls(k, "whatif") = {} => Calls(k, "fallback") = {}
  /\ (execute /\ tools["az"]) =>
       \A k \in 1..NFiles :
         Completed(k) =>
           /\ Cardinality(Calls(k, "whatif")) = 1
           /\ \A j \in Calls(k, "whatif") :
                Cardinality(Calls(k, "fallback")) = (IF ran[j].rc # 0 THEN 1 ELSE 0)

C2_Witness ==
  /\ execute /\ tools["az"] /\ pc = "done" /\ NFiles = 2
  /\ \E j \in Calls(1, "fallback") : ran[j].rc # 0
  /\ \E j \in Calls(2, "fallback") : ran[j].rc = 0

\* C3 as claimed: once the fallback of a descriptor has been run, the notes
\* hold two notes of its what-if step, whether the fallback failed or not.
C3_TwoNotesAlways ==
  \A k \in 1..NFiles :
    (Completed(k) /\ Calls(k, "fallback") # {}) => Cardinality(DryRunNotes(k)) = 2

\* C3 as amended: the failure of the what-if command is always noted; the
\* fallback is noted (a second note) exactly when it fails too.
C3_FallbackNotedOnFailure ==
  \A k \in 1..NFiles :
    \A j \in Calls(k, "whatif") :
      /\ ran[j].rc # 0 <=> Has(notes, WhatIfFailedNote(bicep_files[k], ran[j].rc))
      /\ ran[j].rc = 0 => DryRunNotes(k) = {}
      /\ Completed(k) =>
           \A f \in Calls(k, "fallback") :
             /\ ran[f].rc # 0 <=> Has(notes, FallbackFailedNote(bicep_files[k], ran[f].rc))
             /\ Cardinality(DryRunNotes(k)) = (IF ran[f].rc # 0 THEN 2 ELSE 1)

C3_Witness ==
  /\ pc = "done" /\ NFiles = 2
  /\ \E f \in Calls(1, "fallback") : ran[f].rc = 0
  /\ Cardinality(DryRunNotes(1)) = 1
  /\ \E f \in Calls(2, "fallback") : ran[f].rc # 0
  /\ Cardinality(DryRunNotes(2)) = 2
\* C4 as claimed: an unreadable descriptor gets the scope of a readable one
\* without a declaration, resourceGroup, and with it the resource-group
\* form of the what-if command.
C4_UnreadableIsResourceGroup ==
  \A k \in 1..Len(scopes) :
    fileText[bicep_files[k]] = Unreadable =>
      /\ scopes[k] = "resourceGroup"
      /\ scopes[k] = get_target_scope([readable |-> TRUE, targetScope |-> NoDeclaration])
      /\ Synthesized(k) =>
           /\ DryRunOf(k)[1] = GroupWhatIf
           /\ Has(DryRunOf(k), RgArg)

\* C5 as claimed: the Commands section of the report lists every command
\* that was synthesized, the ones that were run among them, in order.
C5_ReportListsEveryCommand ==
  pc = "done" =>
    /\ report.commands = CommandsMd(commands)
    /\ \A j \in DOMAIN ran :
         Has(report.commands, <<"- ", Backtick>> \o ran[j].cmd \o <<Backtick>>)

\* C6 as claimed: with --execute, a missing tool leaves one note per
\* descriptor for each step that depends on it (bicep: the build step, az:
\* the what-if step), and that step's commands are not run.
NotesOwed == (IF tools["bicep"] THEN 0 ELSE 1) + (IF tools["az"] THEN 0 ELSE 1)

C6_EveryMissingToolNoted ==
  execute =>
    /\ pc = "done" => Cardinality(ToolNotes) = NFiles * NotesOwed
    /\ \A k \in 1..NFiles :
         /\ ~tools["bicep"] => Calls(k, "build") = {}
         /\ ~tools["az"] => Calls(k, "whatif") = {} /\ Calls(k, "fallback") = {}

\* C6 as amended: with --execute and no az, every descriptor gets the note
\* that az was not found and neither its what-if command nor a fallback is
\* run; with --execute and no bicep, no build command is synthesized or
\* run, and no note says so.
C6_MissingAzNoted ==
  execute =>
    /\ \A j \in ToolNotes : notes[j] = NoAzNote /\ ~tools["az"]
    /\ Cardinality(ToolNotes) =
         (IF tools["az"] THEN 0 ELSE Cardinality({ k \in 1..NFiles : Synthesized(k) }))
    /\ \A k \in 1..NFiles :
         /\ ~tools["az"] => Calls(k, "whatif") = {} /\ Calls(k, "fallback") = {}
         /\ ~tools["bicep"] =>
              /\ Calls(k, "build") = {}
              /\ ~Has(commands, BuildCommand(bicep_files[k]))

C6_Witness ==
  /\ execute /\ ~tools["az"] /\ ~tools["bicep"]
  /\ pc = "done" /\ NFiles = 2
  /\ notes = <<NoAzNote, NoAzNote>>
  /\ ran = <<>>
\* C7: whatever the commands return (exit 0, a non-zero exit, a launch
\* exception that run_cmd turns into exit status 1 and text), the run never
\* stops on an exception, handles every descriptor (a failed build is
\* followed by the same descriptor's what-if command, a failure on one
\* descriptor by the next descriptor), runs at most three commands per
\* descriptor, and ends by writing and printing the report.
C7_Safety ==
  /\ pc # "crashed"
  /\ \A k \in 1..NFiles :
       /\ Cardinality(CallsFor(k)) <= 3
       /\ Cardinality(Calls(k, "build")) <= 1
       /\ Completed(k) =>
            /\ DryRunOf(k) = WhatIfCommand(scopes[k], bicep_files[k])
            /\ (execute /\ tools["az"]) => Calls(k, "whatif") # {}
  /\ pc = "done" =>
       /\ i = NFiles + 1
       /\ Len(scopes) = NFiles
       /\ report.written
       /\ report.bicep_count = NFiles
       /\ report.notes = NotesText(notes)
       /\ stdout = report
  /\ pc # "done" => ~report.written

\* C7: the above holds throughout and every run reaches the written report.
C7_AlwaysReports == []C7_Safety /\ <>(pc = "done")

C7_Witness ==
  /\ pc = "done" /\ NFiles = 2 /\ report.written
  /\ Has(notes, BuildFailedNote(bicep_files[1], <<"x">>))
  /\ Has(notes, BuildFailedNote(bicep_files[2], <<"e">>))
  /\ Cardinality(CallsFor(1)) = 3
  /\ \E j \in Calls(1, "fallback") : ran[j].rc # 0
  /\ Calls(2, "whatif") # {}

\* C8: the form of a descriptor's what-if command follows from its scope:
\* resourceGroup gives the group form with <rg-name>; subscription the sub
\* form with <location> and no resource group; managementGroup the mg form
\* with <location> and <mg-id>; anything else the tenant form with
\* <location>; and every form asks for validation level Provider.
C8_FormFollowsScope ==
  \A k \in 1..NFiles :
    Synthesized(k) =>
      LET c == DryRunOf(k)
          b == bicep_files[k]
          n == Len(c)
      IN /\ scopes[k] = "resourceGroup" =>
              c[1] = GroupWhatIf /\ Has(c, RgArg) /\ ~Has(c, LocationArg) /\ ~Has(c, MgIdArg)
         /\ scopes[k] = "subscription" =>
              c[1] = SubWhatIf /\ Has(c, LocationArg) /\ ~Has(c, RgArg) /\ ~Has(c, MgIdArg)
         /\ scopes[k] = "managementGroup" =>
              c[1] = MgWhatIf /\ Has(c, LocationArg) /\ Has(c, MgIdArg) /\ ~Has(c, RgArg)
         /\ scopes[k] \notin {"resourceGroup", "subscription", "managementGroup"} =>
              c[1] = TenantWhatIf /\ Has(c, LocationArg) /\ ~Has(c, RgArg) /\ ~Has(c, MgIdArg)
         /\ c[n - 1] = LevelArg /\ c[n] = "Provider"
         /\ SubSeq(c, n - 2 - Len(b), n - 2) = <<TemplateArg>> \o b

C8_Witness ==
  /\ pc = "done" /\ NFiles = 2
  /\ scopes = <<"subscription", "managementGroup">>
  /\ DryRunOf(1)[1] = SubWhatIf
  /\ DryRunOf(2)[1] = MgWhatIf

\* C9: after the scan, the note "No .bicep files found." is in the notes
\* exactly when the scanner returned no descriptor; then no command is
\* synthesized or run, even with --execute, the report counts 0 descriptors
\* and its Commands section is the placeholder line.
C9_AbsenceNote ==
  pc # "start" =>
    /\ Has(notes, NoBicepNote) <=> bicep_files = <<>>
    /\ bicep_files = <<>> =>
         /\ commands = <<>>
         /\ ran = <<>>
         /\ pc = "done" =>
              /\ report.bicep_count = 0
              /\ report.commands = <<NoCommandsLine>>
    /\ (pc = "done" /\ bicep_files # <<>>) => ~Has(report.commands, NoCommandsLine)

C9_Witness ==
  /\ execute /\ tools["az"] /\ tools["bicep"]
  /\ bicep_files = <<>> /\ pc = "done"
  /\ notes = <<NoBicepNote>>
  /\ report.commands = <<NoCommandsLine>>

IsBuildFor(c, b) ==
  /\ Len(c) = Len(b) + 2
  /\ c[1] = "bicep build "
  /\ SubSeq(c, 2, 1 + Len(b)) = b

IsWhatIfFor(c, b) ==
  /\ Len(c) >= Len(b) + 5
  /\ c[1] \in {GroupWhatIf, SubWhatIf, MgWhatIf, TenantWhatIf}
  /\ SubSeq(c, Len(c) - 2 - Len(b), Len(c) - 2) = <<TemplateArg>> \o b

StepRank(step) == IF step = "build" THEN 1 ELSE IF step = "whatif" THEN 2 ELSE 3

C11_InOrder ==
  /\ i <= NFiles + 1
  /\ Len(scopes) = (IF pc = "start" THEN 0
                    ELSE IF pc \in {"loop", "done"} THEN i - 1 ELSE i)
  /\ Len(commands) =
       PerFile * Cardinality({ k \in 1..NFiles : Synthesized(k) })
       + (IF tools["bicep"] /\ pc \in {"run_build", "synth"} THEN 1 ELSE 0)
  /\ \A k \in 1..NFiles :
       Synthesized(k) =>
         /\ IsWhatIfFor(commands[k * PerFile], bicep_files[k])
         /\ tools["bicep"] => IsBuildFor(commands[k * PerFile - 1], bicep_files[k])
  /\ \A n \in DOMAIN commands :
       \E k \in 1..NFiles :
         /\ \/ IsWhatIfFor(commands[n], bicep_files[k]) /\ n = k * PerFile
            \/ IsBuildFor(commands[n], bicep_files[k]) /\ tools["bicep"] /\ n = 2 * k - 1
  /\ \A j \in DOMAIN ran :
       /\ ran[j].step = "build" => ran[j].cmd = commands[2 * ran[j].file - 1]
       /\ ran[j].step = "whatif" => ran[j].cmd = commands[ran[j].file * PerFile]
       /\ \A j2 \in DOMAIN ran :
            j < j2 =>
              \/ ran[j].file < ran[j2].file
              \/ /\ ran[j].file = ran[j2].file
                 /\ StepRank(ran[j].step) < StepRank(ran[j2].step)

C11_AppendOnly ==
  /\ Len(commands') >= Len(commands)
  /\ SubSeq(commands', 1, Len(commands)) = commands
  /\ i' >= i

\* C11: the order above holds throughout, and commands only grows at its end.
C11_OrderedAppendOnly == []C11_InOrder /\ [][C11_AppendOnly]_vars

C11_Witness ==
  /\ execute /\ tools["az"] /\ tools["bicep"]
  /\ pc = "done" /\ NFiles = 2 /\ Len(commands) = 4
  /\ Len(ran) = 6
  /\ ran[1].step = "build" /\ ran[2].step = "whatif" /\ ran[3].step = "fallback"
  /\ ran[3].file = 1 /\ ran[4].file = 2
\* The file system is not main's alone.  While main waits in
\* subprocess.run for a command it runs on a descriptor, that command (a
\* shell command line resolved through PATH), or anything else running,
\* may rewrite the descriptor main has already read.
DescriptorRewritten ==
  /\ pc \in {"run_build", "run_whatif", "run_fallback"}
  /\ \E file \in FileStates \ {fileText[bicep_files[i]]} :
       fileText' = [fileText EXCEPT ![bicep_files[i]] = file]
  /\ UNCHANGED <<execute, tools, bicep_files, notes, commands, pc, i, scope, cmd,
                 fallback, rc, ran, scopes, report, stdout>>
  /\ UNCHANGED serverVars

NextFs ==
  \/ Start
  \/ BeginDescriptor
  \/ RunBuild
  \/ SynthWhatIf
  \/ RunWhatIf
  \/ RunFallback
  \/ GenerateReport
  \/ DescriptorRewritten

\* main with a file system that commands may write to.
SpecFs == Init /\ [][NextFs]_vars

\* C12 as claimed: the scope the report prints for a descriptor is the
\* scope main read for it and chose its what-if command by, also when the
\* descriptor is unreadable and when it is rewritten between the two reads.
C12_ReportedScopeIsUsedScope ==
  pc = "done" =>
    \A k \in 1..NFiles :
      /\ report.files_section[k].path = relative_to(bicep_files[k], Root)
      /\ report.files_section[k].scope = scopes[k]
      /\ DryRunOf(k) = WhatIfCommand(report.files_section[k].scope, bicep_files[k])
\* ------------------------------------------------ the web service: steps

\* The preflight script is not running.
PreflightIdle ==
  /\ execute = FALSE
  /\ tools = [t \in ToolNames |-> FALSE]
  /\ bicep_files = <<>>
  /\ fileText = <<>>
  /\ notes = <<>>
  /\ commands = <<>>
  /\ pc = "start"
  /\ i = 0
  /\ scope = None
  /\ cmd = <<>>
  /\ fallback = <<>>
  /\ rc = 0
  /\ ran = <<>>
  /\ scopes = <<>>
  /\ report = NoReport
  /\ stdout = NoReport

ServerInit == ServerIdle /\ PreflightIdle

\* The requests whose response has been returned.
Done == { q \in Reqs : requests[q].pc = "done" }

\* A request is received and its before_request hook runs (line 34):
\* app.request_start_time = time.time().
BeforeRequest(r) ==
  /\ requests[r].pc = "idle"
  /\ \E m \in Methods, p \in UrlPaths :
       requests' = [requests EXCEPT ![r] =
                      [@ EXCEPT !.pc = "dispatch", !.method = m, !.path = p,
                                !.started = clock]]
  /\ request_start_time' = clock
  /\ clock' = clock + 1
  /\ UNCHANGED <<request_count, request_duration>>
  /\ UNCHANGED vars

\* The request is dispatched: hello, health or metrics (lines 47-66), or
\* not_found for a path no rule matches (lines 68-74).  metrics answers
\* with generate_latest(REGISTRY): the metrics as they are now.
Dispatch(r) ==
  /\ requests[r].pc = "dispatch"
  /\ LET path == requests[r].path
         isMetrics == endpoint(path) = "metrics"
     IN requests' = [requests EXCEPT ![r] =
                       [@ EXCEPT !.pc = "after",
                                 !.status = status_code(path),
                                 !.body = IF isMetrics THEN request_count ELSE @,
                                 !.completed = IF isMetrics THEN Done ELSE @]]
  /\ UNCHANGED <<request_start_time, clock, request_count, request_duration>>
  /\ UNCHANGED vars

\* after_request, lines 38-39: the duration since app.request_start_time
\* is observed under the request's endpoint.
AfterRequestObserve(r) ==
  /\ requests[r].pc = "after"
  /\ LET duration == clock - request_start_time
     IN /\ request_duration' =
             observe(request_duration, endpoint_label(requests[r].path), duration)
        /\ requests' = [requests EXCEPT ![r] =
                          [@ EXCEPT !.pc = "count", !.read = request_start_time,
                                    !.duration = duration]]
  /\ clock' = clock + 1
  /\ UNCHANGED <<request_start_time, request_count>>
  /\ UNCHANGED vars

\* after_request, lines 40-45: the request is counted and its response
\* returned.
AfterRequestCount(r) ==
  /\ requests[r].pc = "count"
  /\ request_count' =
       inc(request_count,
           labels(requests[r].method, requests[r].path, requests[r].status))
  /\ requests' = [requests EXCEPT ![r] = [@ EXCEPT !.pc = "done"]]
  /\ UNCHANGED <<request_start_time, clock, request_duration>>
  /\ UNCHANGED vars

\* app.run serves each request in a thread of its own: the steps of
\* different requests interleave.
ServerNext ==
  \E r \in Reqs :
    \/ BeforeRequest(r)
    \/ Dispatch(r)
    \/ AfterRequestObserve(r)
    \/ AfterRequestCount(r)

ServerSpec == ServerInit /\ [][ServerNext]_<<vars, serverVars>>
\* ------------------------------------------- the web service: properties

\* The label set a request is to be counted under: its method, the name of
\* the view that serves its path or 'unknown', and its status code.
ExpectedLabel(q) ==
  LET path == requests[q].path
      known == path \in {"/", "/health", "/metrics"}
  IN [method |-> requests[q].method,
      endpoint |-> (CASE path = "/" -> "hello"
                      [] path = "/health" -> "health"
                      [] path = "/metrics" -> "metrics"
                      [] OTHER -> "unknown"),
      status |-> (IF known THEN "200" ELSE "404")]

\* How many requests of S are to be counted under label set l.
CountedIn(S, l) == Cardinality({ q \in S : ExpectedLabel(q) = l })

RECURSIVE SumOver(_, _)
SumOver(f, S) ==
  IF S = {} THEN 0
  ELSE LET x == CHOOSE y \in S : TRUE IN f[x] + SumOver(f, S \ {x})

\* The sum of all children of a counter (the children at zero add nothing).
Total(f) == SumOver(f, { l \in DOMAIN f : f[l] # 0 })

\* The counter f counts the requests of S, each once under its label set.
CountsExactly(f, S) ==
  /\ \A q \in S : f[ExpectedLabel(q)] = CountedIn(S, ExpectedLabel(q))
  /\ \A l \in LabelSets : f[l] # 0 => \E q \in S : ExpectedLabel(q) = l
  /\ Total(f) = Cardinality(S)

\* C13: every completed request (/, /health, /metrics, or an unknown path
\* answered 404) has incremented app_requests_total exactly once, under its
\* own label set: whatever the interleaving, each child counts the completed
\* requests of its label set and the children sum to their number; and the
\* body of a /metrics response holds the counts of the requests completed
\* before it was made, itself not among them.
C13_CountedExactlyOnce ==
  /\ CountsExactly(request_count, Done)
  /\ \A r \in Reqs :
       (requests[r].path = "/metrics" /\ requests[r].pc \in {"after", "count", "done"}) =>
         /\ r \notin requests[r].completed
         /\ CountsExactly(requests[r].body, requests[r].completed)

C13_Witness ==
  /\ Done = Reqs
  /\ requests[1].path = "/missing" /\ requests[1].method = "GET"
  /\ requests[2].path = "/metrics" /\ requests[2].completed = {1}
  /\ request_count[[method |-> "GET", endpoint |-> "unknown", status |-> "404"]] = 1
  /\ Total(requests[2].body) = 1
  /\ Total(request_count) = 2

\* C14 as claimed: the duration a request's after_request hook observes is
\* computed from the start time its own before_request hook wrote.
C14_OwnStartTime ==
  \A r \in Reqs :
    requests[r].pc \in {"count", "done"} => requests[r].read = requests[r].started

====
